---- MODULE Spec2Model ----
(***************************************************************************)
(* Fixed-capacity open-addressing hash map with linear probing             *)
(* (src/src/lib.rs).  The table operations are written as operators on a   *)
(* table record [buckets, capacity, length] that return the table after    *)
(* the call and the call's outcome; the actions apply them to map1 (and,   *)
(* for equality, to map2).  Properties of a call are stated over the       *)
(* operator's result in every reachable table, for every argument.         *)
(***************************************************************************)
EXTENDS Integers, Sequences, FiniteSets

\* Bounds of the model.
MaxCap == 3
NumKeys == 2
NumVals == 2
\* clear() leaves length as it is, so length grows without limit over
\* insert/clear rounds; the model stops counting at MaxLen.
MaxLen == MaxCap + 1

Keys == 1..NumKeys
Vals == 1..NumVals

VARIABLES
    map1,      \* the table under test: [buckets, capacity, length]
    map2,      \* a second table of the same capacity (right operand of ==)
    hash,      \* hasher.finish() of every key, as its residue class
    latest,    \* observer: value of the latest successful insert of each key
    pc         \* number of calls of tests::test_common made so far

vars == <<map1, map2, hash, latest, pc>>

\* ---------------------------------------------------------------- values
\* Option<T>
None == <<>>
Some(x) == <<x>>
is_some(o) == o # None

\* enum Entry<K, V>
Empty == <<>>
KeyPair(k, v) == <<k, v>>

\* Entry::key
key(entry) == IF entry = Empty THEN None ELSE Some(entry[1])

\* Entry::value
value(entry) == IF entry = Empty THEN None ELSE Some(entry[2])

\* Entry::is_empty
is_empty_entry(entry) == entry = Empty

\* Outcome of a call: status "ok" (returned), "panic" (unwrap of None),
\* "underflow" (0 - 1 on a usize: a panic with overflow checks, usize::MAX
\* without) or "loop" (never returns); flag is the returned bool, opt the
\* returned Option.
Ret(status, flag, opt) == [status |-> status, flag |-> flag, opt |-> opt]
Panic == Ret("panic", FALSE, None)

\* ---------------------------------------------------------------- table
\* HashMap::with_capacity
with_capacity(capacity) ==
    [buckets |-> [i \in 0..(capacity - 1) |-> Empty],
     capacity |-> capacity,
     length |-> 0]

\* HashMap::cap
cap(t) == t.capacity

\* HashMap::len
len(t) == t.length

\* HashMap::is_empty
is_empty(t) == t.length = 0

\* A clear that resets length and leaves the buckets.
clear_len_only(t) == [t EXCEPT !.length = 0]

\* HashMap::clear
clear(t) ==
    [t EXCEPT !.buckets = [i \in 0..(t.capacity - 1) |-> Empty]]

\* HashMap::find_bucket
find_bucket(t, k) == hash[k] % cap(t)

\* `self.len() >= self.cap()`: no bucket is available.
is_full_strict(t) == len(t) > cap(t)
is_full(t) == len(t) >= cap(t)

\* The collision loop of HashMap::insert scanning backward.
RECURSIVE insert_loop_back(_, _)
insert_loop_back(t, index) ==
    LET next == (index + cap(t) - 1) % cap(t)
    IN  IF t.buckets[next] = Empty THEN next ELSE insert_loop_back(t, next)

\* The collision loop of HashMap::insert: the index of the first Empty slot
\* after `index`, scanning forward with wrap-around.
RECURSIVE insert_loop(_, _)
insert_loop(t, index) ==
    LET next == (index + 1) % cap(t)
    IN  IF t.buckets[next] = Empty THEN next ELSE insert_loop(t, next)

\* The number of iterations the collision loop of HashMap::insert makes from
\* `index` (defined when some slot is Empty).
RECURSIVE insert_loop_steps(_, _)
insert_loop_steps(t, index) ==
    LET next == (index + 1) % cap(t)
    IN  IF t.buckets[next] = Empty THEN 1 ELSE 1 + insert_loop_steps(t, next)

\* HashMap::insert; the result is the table after the call and the outcome.
insert(t, k, v) ==
    LET index == find_bucket(t, k)
        old_entry == t.buckets[index]
    IN  IF old_entry = Empty
        THEN [map |-> [t EXCEPT !.buckets[index] = KeyPair(k, v),
                                !.length = t.length + 1],
              ret |-> Ret("ok", TRUE, None)]
        ELSE IF old_entry[1] = k
        THEN [map |-> [t EXCEPT !.buckets[index] = KeyPair(k, v)],
              ret |-> Ret("ok", TRUE, Some(old_entry[2]))]
        ELSE IF is_full(t)
        THEN [map |-> t, ret |-> Ret("ok", FALSE, None)]
        ELSE IF \A i \in DOMAIN t.buckets : t.buckets[i] # Empty
        THEN [map |-> t, ret |-> Ret("loop", FALSE, None)]
        ELSE LET slot == insert_loop(t, index)
             IN  [map |-> [t EXCEPT !.buckets[slot] = KeyPair(k, v),
                                    !.length = t.length + 1],
                  ret |-> Ret("ok", TRUE, None)]

\* The loop of probe_key_bucket reporting the slot it wrapped back to.
RECURSIVE probe_loop_wrap_found(_, _, _, _)
probe_loop_wrap_found(t, k, index, start_index) ==
    LET next == (index + 1) % cap(t)
    IN  IF next = start_index THEN Ret("ok", TRUE, Some(next))
        ELSE IF key(t.buckets[next]) = None THEN Ret("panic", FALSE, None)
        ELSE IF key(t.buckets[next]) = Some(k) THEN Ret("ok", TRUE, Some(next))
        ELSE probe_loop_wrap_found(t, k, next, start_index)

\* The `hash collision` loop of HashMap::probe_key_bucket.
RECURSIVE probe_loop(_, _, _, _)
probe_loop(t, k, index, start_index) ==
    LET next == (index + 1) % cap(t)
    IN  IF next = start_index THEN Ret("ok", FALSE, None)
        ELSE IF key(t.buckets[next]) = None THEN Panic
        ELSE IF key(t.buckets[next]) = Some(k) THEN Ret("ok", TRUE, Some(next))
        ELSE probe_loop(t, k, next, start_index)

\* HashMap::probe_key_bucket: opt is the Option<usize> returned.
probe_key_bucket(t, k) ==
    LET index == find_bucket(t, k)
        entry == t.buckets[index]
    IN  IF entry = Empty THEN Ret("ok", FALSE, None)
        ELSE IF key(entry) = Some(k) THEN Ret("ok", TRUE, Some(index))
        ELSE probe_loop(t, k, index, index)

\* The number of buckets the loop of probe_key_bucket reads from `index` on.
RECURSIVE probe_loop_reads(_, _, _, _)
probe_loop_reads(t, k, index, start_index) ==
    LET next == (index + 1) % cap(t)
    IN  IF next = start_index THEN 0
        ELSE IF key(t.buckets[next]) = None THEN 1
        ELSE IF key(t.buckets[next]) = Some(k) THEN 1
        ELSE 1 + probe_loop_reads(t, k, next, start_index)

\* The number of buckets HashMap::probe_key_bucket reads.
probe_reads(t, k) ==
    LET index == find_bucket(t, k)
        entry == t.buckets[index]
    IN  IF entry = Empty \/ key(entry) = Some(k) THEN 1
        ELSE 1 + probe_loop_reads(t, k, index, index)

\* HashMap::get: opt is the Option<&V> returned.
get(t, k) ==
    LET pi == probe_key_bucket(t, k)
    IN  IF pi.status # "ok" THEN pi
        ELSE IF pi.opt = None THEN Ret("ok", FALSE, None)
        ELSE Ret("ok", is_some(value(t.buckets[pi.opt[1]])),
                 value(t.buckets[pi.opt[1]]))

\* HashMap::contains_key
contains_key(t, k) ==
    LET g == get(t, k)
    IN  IF g.status # "ok" THEN g ELSE Ret("ok", is_some(g.opt), None)

\* HashMap::get_mut handing out the home slot instead of the probed one.
get_mut_home(t, k, v) ==
    LET pi == probe_key_bucket(t, k)
    IN  IF pi.status # "ok" THEN [map |-> t, ret |-> pi]
        ELSE IF pi.opt = None \/ t.buckets[pi.opt[1]] = Empty
        THEN [map |-> t, ret |-> Ret("ok", FALSE, None)]
        ELSE [map |-> [t EXCEPT !.buckets[find_bucket(t, k)] = KeyPair(k, v)],
              ret |-> Ret("ok", TRUE, value(t.buckets[pi.opt[1]]))]

\* HashMap::get_mut followed by a write of v through the returned reference.
get_mut(t, k, v) ==
    LET pi == probe_key_bucket(t, k)
    IN  IF pi.status # "ok" THEN [map |-> t, ret |-> pi]
        ELSE IF pi.opt = None \/ t.buckets[pi.opt[1]] = Empty
        THEN [map |-> t, ret |-> Ret("ok", FALSE, None)]
        ELSE [map |-> [t EXCEPT !.buckets[pi.opt[1]] =
                                    KeyPair(t.buckets[pi.opt[1]][1], v)],
              ret |-> Ret("ok", TRUE, value(t.buckets[pi.opt[1]]))]

\* `self.length -= 1` on a usize
sub_one(n) ==
    IF n >= 1 THEN Ret("ok", TRUE, Some(n - 1))
    ELSE Ret("underflow", FALSE, None)

\* HashMap::remove with the decrement hoisted above the match.
remove_dec_first(t, k) ==
    LET pi == probe_key_bucket(t, k)
        dec == IF t.length >= 1 THEN t.length - 1 ELSE t.length
    IN  IF pi.status # "ok" THEN [map |-> t, ret |-> pi]
        ELSE IF pi.opt = None
        THEN [map |-> [t EXCEPT !.length = dec], ret |-> Ret("ok", FALSE, None)]
        ELSE [map |-> [t EXCEPT !.buckets[pi.opt[1]] = Empty, !.length = dec],
              ret |-> Ret("ok", TRUE, None)]

\* HashMap::remove without the decrement of length.
remove_keep_len(t, k) ==
    LET pi == probe_key_bucket(t, k)
    IN  IF pi.status # "ok" THEN [map |-> t, ret |-> pi]
        ELSE IF pi.opt = None THEN [map |-> t, ret |-> Ret("ok", FALSE, None)]
        ELSE [map |-> [t EXCEPT !.buckets[pi.opt[1]] = Empty],
              ret |-> Ret("ok", TRUE, None)]

\* HashMap::remove
remove(t, k) ==
    LET pi == probe_key_bucket(t, k)
    IN  IF pi.status # "ok" THEN [map |-> t, ret |-> pi]
        ELSE IF pi.opt = None THEN [map |-> t, ret |-> Ret("ok", FALSE, None)]
        ELSE LET dec == sub_one(t.length)
                 freed == [t EXCEPT !.buckets[pi.opt[1]] = Empty]
             IN  IF dec.status # "ok" THEN [map |-> freed, ret |-> dec]
                 ELSE [map |-> [freed EXCEPT !.length = dec.opt[1]],
                       ret |-> Ret("ok", TRUE, None)]

\* HashMapIter::next driven to exhaustion: the items of iter(), in order.
RECURSIVE iter_from(_, _)
iter_from(t, i) ==
    IF i >= cap(t) THEN <<>>
    ELSE IF ~is_empty_entry(t.buckets[i])
    THEN <<t.buckets[i]>> \o iter_from(t, i + 1)
    ELSE iter_from(t, i + 1)

\* An iteration that starts one slot late.
iter_skip_first(t) == iter_from(t, 1)

\* HashMap::iter
iter(t) == iter_from(t, 0)

\* HashMapIterMut::next driven to exhaustion: the items of iter_mut(), in
\* order (the value of an item is the one the reference points at).
RECURSIVE iter_mut_from(_, _)
iter_mut_from(t, i) ==
    IF i >= cap(t) THEN <<>>
    ELSE IF t.buckets[i] # Empty
    THEN <<KeyPair(t.buckets[i][1], t.buckets[i][2])>> \o iter_mut_from(t, i + 1)
    ELSE iter_mut_from(t, i + 1)

\* HashMap::keys with Keys::next driven to exhaustion
keys(t) == LET items == iter(t) IN [n \in 1..Len(items) |-> items[n][1]]

\* HashMap::values with Values::next driven to exhaustion
values(t) == [n \in 1..Len(iter(t)) |-> iter(t)[n][2]]

\* HashMap::iter_mut with f applied to every yielded value.
iter_mut(t, f) ==
    [t EXCEPT !.buckets = [i \in DOMAIN t.buckets |->
        IF t.buckets[i] = Empty THEN Empty
        ELSE KeyPair(t.buckets[i][1], f[t.buckets[i][2]])]]

\* The closure of PartialEq::eq applied to the items from position n on.
RECURSIVE all_from(_, _, _)
all_from(items, other, n) ==
    IF n > Len(items) THEN Ret("ok", TRUE, None)
    ELSE LET g == get(other, items[n][1])
         IN  IF g.status # "ok" THEN g
             ELSE IF g.opt = None \/ g.opt[1] # items[n][2]
             THEN Ret("ok", FALSE, None)
             ELSE all_from(items, other, n + 1)

\* A slot-by-slot comparison, as a derived PartialEq would make.
eq_derived(self, other) ==
    Ret("ok", self.buckets = other.buckets /\ len(self) = len(other), None)

\* impl PartialEq for HashMap: self == other
eq(self, other) ==
    IF len(self) # len(other) THEN Ret("ok", FALSE, None)
    ELSE all_from(iter(self), other, 1)

\* Indices of the Occupied (KeyPair) slots of t.
Occupied(t) == {i \in DOMAIN t.buckets : t.buckets[i] # Empty}

\* Indices of the slots of t that hold key k.
SlotsOf(t, k) == {i \in Occupied(t) : t.buckets[i][1] = k}

\* Keys stored in t.
KeysIn(t) == {k \in Keys : SlotsOf(t, k) # {}}

\* ---------------------------------------------------------------- state
\* The bodies run on each `&mut V` yielded by iter_mut: `*v += d`, wrapping
\* inside Vals, and `*v = c`.  With two values these are all the functions
\* from Vals to Vals.
Updates ==
    {[v \in Vals |-> ((v - 1 + d) % NumVals) + 1] : d \in 0..(NumVals - 1)}
        \cup {[v \in Vals |-> c] : c \in Vals}

\* The bucket indexes a hasher can give the keys of a table of `capacity`
\* slots.  The table uses a key only through its hash and through ==, so the
\* keys are named in the order of their indexes: every other hasher is one of
\* these with the keys renamed.
Hashers(capacity) ==
    {h \in [Keys -> 0..(capacity - 1)] :
        \A j, k \in Keys : j <= k => h[j] <= h[k]}

Init ==
    /\ \E capacity \in 1..MaxCap :
          /\ map1 = with_capacity(capacity)
          /\ map2 = with_capacity(capacity)
          /\ hash \in Hashers(capacity)
    /\ latest = [k \in Keys |-> None]
    /\ pc = 0

\* map1.insert(k, v)
Insert(k, v) ==
    /\ LET r == insert(map1, k, v)
       IN  /\ len(r.map) <= MaxLen
           /\ map1' = r.map
    /\ UNCHANGED <<map2, hash, latest, pc>>

\* map1.remove(&k)
Remove(k) ==
    /\ map1' = remove(map1, k).map
    /\ UNCHANGED <<map2, hash, latest, pc>>

\* map1.clear()
Clear ==
    /\ map1' = clear(map1)
    /\ UNCHANGED <<map2, hash, latest, pc>>

\* *map1.get_mut(&k).unwrap() = v, when get_mut returns Some
GetMut(k, v) ==
    /\ map1' = get_mut(map1, k, v).map
    /\ UNCHANGED <<map2, hash, latest, pc>>

\* for (_, v) in map1.iter_mut() { *v = f(*v) }
IterMut(f) ==
    /\ map1' = iter_mut(map1, f)
    /\ UNCHANGED <<map2, hash, latest, pc>>

Next ==
    \/ \E k \in Keys, v \in Vals : Insert(k, v)
    \/ \E k \in Keys : Remove(k)
    \/ Clear
    \/ \E k \in Keys, v \in Vals : GetMut(k, v)
    \/ \E f \in Updates : IterMut(f)

Spec == Init /\ [][Next]_vars

\* map1.insert(k, v), with the observer recording the value of an insert that
\* returned inserted = true.
InsertTracked(k, v) ==
    /\ map1' = insert(map1, k, v).map
    /\ latest' = IF insert(map1, k, v).ret.flag
                 THEN [latest EXCEPT ![k] = Some(v)]
                 ELSE latest
    /\ UNCHANGED <<map2, hash, pc>>

\* Inserts only (no remove, no clear).
NextInsert == \E k \in Keys, v \in Vals : InsertTracked(k, v)

SpecInsert == Init /\ [][NextInsert]_vars

\* Two tables of the same capacity, each built by inserts and removes.  The
\* tables are independent, so the right operand map2 is built first, while
\* map1 is still as constructed: every pair of reachable tables is reached.
Insert2(k, v) ==
    /\ map1 = with_capacity(cap(map1))
    /\ map2' = insert(map2, k, v).map
    /\ UNCHANGED <<map1, hash, latest, pc>>

Remove2(k) ==
    /\ map1 = with_capacity(cap(map1))
    /\ map2' = remove(map2, k).map
    /\ UNCHANGED <<map1, hash, latest, pc>>

NextEq ==
    \/ \E k \in Keys, v \in Vals : Insert(k, v)
    \/ \E k \in Keys : Remove(k)
    \/ \E k \in Keys, v \in Vals : Insert2(k, v)
    \/ \E k \in Keys : Remove2(k)

SpecEq == Init /\ [][NextEq]_vars

\* Two tables of the same capacity, each built by inserts of keys it does not
\* hold yet (no removals); map2 is built first.
InsertNew(k, v) ==
    /\ k \notin KeysIn(map1)
    /\ map1' = insert(map1, k, v).map
    /\ UNCHANGED <<map2, hash, latest, pc>>

InsertNew2(k, v) ==
    /\ map1 = with_capacity(cap(map1))
    /\ k \notin KeysIn(map2)
    /\ map2' = insert(map2, k, v).map
    /\ UNCHANGED <<map1, hash, latest, pc>>

NextOrder ==
    \/ \E k \in Keys, v \in Vals : InsertNew(k, v)
    \/ \E k \in Keys, v \in Vals : InsertNew2(k, v)

SpecOrder == Init /\ [][NextOrder]_vars

\* tests::test_common: the calls it makes on a table of capacity 3, in order,
\* for every assignment of its keys 1..4 to home indices.
ScenarioCap == 3
ScenarioKeys == 1..4

\* The n-th mutating call of test_common, applied to table t.
ScenarioCall(t, n) ==
    CASE n = 1 -> insert(t, 1, 100)
      [] n = 2 -> insert(t, 2, 200)
      [] n = 3 -> insert(t, 3, 300)
      [] n = 4 -> insert(t, 4, 400)
      [] n = 5 -> insert(t, 1, 1000)
      [] n = 6 -> remove(t, 1)
      [] n = 7 -> insert(t, 4, 400)

ScenarioLen == 7

InitScenario ==
    /\ map1 = with_capacity(ScenarioCap)
    /\ map2 = with_capacity(ScenarioCap)
    /\ hash \in [ScenarioKeys -> 0..(ScenarioCap - 1)]
    /\ latest = [k \in ScenarioKeys |-> None]
    /\ pc = 0

\* The next call of test_common.
ScenarioStep ==
    /\ pc < ScenarioLen
    /\ map1' = ScenarioCall(map1, pc + 1).map
    /\ pc' = pc + 1
    /\ UNCHANGED <<map2, hash, latest>>

SpecScenario == InitScenario /\ [][ScenarioStep]_vars

\* ---------------------------------------------------------------- claims
Absent == Ret("ok", FALSE, None)
Rejected == Ret("ok", FALSE, None)
Returned(flag) == Ret("ok", flag, None)

\* C1: len() equals the exact number of Occupied slots of the bucket array
\* in every reachable state.
C1_LenIsOccupiedCount == len(map1) = Cardinality(Occupied(map1))

\* C2: no key is stored in two different slots of the bucket array.
C2_NoKeyInTwoSlots == \A k \in Keys : Cardinality(SlotsOf(map1, k)) <= 1

\* C3: with inserts only, every key whose insert returned inserted=true is
\* retrievable via get, with the value given by the latest insert of it.
C3_RoundTrip ==
    \A k \in Keys :
        latest[k] # None => get(map1, k) = Ret("ok", TRUE, latest[k])

\* C4: get, get_mut, contains_key and remove of a key that is not stored
\* return None / false and do not panic.
C4_AbsentKeyNoFault ==
    \A k \in Keys :
        k \notin KeysIn(map1) =>
            /\ get(map1, k) = Absent
            /\ contains_key(map1, k) = Returned(FALSE)
            /\ remove(map1, k).ret = Returned(FALSE)
            /\ \A v \in Vals : get_mut(map1, k, v).ret = Absent

\* C5: on a full table, insert of a key already stored (in its home slot or
\* in a probed slot) returns (true, Some(previous value)) and leaves len().
C5_UpdateOnFull ==
    \A k \in KeysIn(map1), v \in Vals :
        len(map1) = cap(map1)
        => /\ insert(map1, k, v).ret.status = "ok"
           /\ insert(map1, k, v).ret.flag
           /\ \E i \in SlotsOf(map1, k) :
                  insert(map1, k, v).ret.opt = Some(map1.buckets[i][2])
           /\ len(insert(map1, k, v).map) = len(map1)

C7_ClearResets ==
    /\ Occupied(clear(map1)) = {}
    /\ len(clear(map1)) = 0
    /\ is_empty(clear(map1))
    /\ cap(clear(map1)) = cap(map1)

\* C8: when remove(k) returns true, len() is reduced by exactly 1 and a
\* following get(k) / contains_key(k) returns None / false.
C8_RemoveThenAbsent ==
    \A k \in Keys :
        remove(map1, k).ret = Returned(TRUE)
        => /\ len(remove(map1, k).map) = len(map1) - 1
           /\ get(remove(map1, k).map, k) = Absent
           /\ contains_key(remove(map1, k).map, k) = Returned(FALSE)

\* C9: when insert returns (false, None) or remove returns false, the bucket
\* array, length and capacity are as before the call.
C9_RejectedLeavesTable ==
    \A k \in Keys :
        /\ \A v \in Vals : insert(map1, k, v).ret = Rejected
                            => insert(map1, k, v).map = map1
        /\ remove(map1, k).ret = Returned(FALSE) => remove(map1, k).map = map1

\* C9 witness: a table holding a key rejects the insert of one key and the
\* remove of another.
C9_Witness ==
    /\ Occupied(map1) # {}
    /\ \E k \in Keys, v \in Vals : insert(map1, k, v).ret = Rejected
    /\ \E k \in Keys : remove(map1, k).ret = Returned(FALSE)

\* C10: for two tables of the same capacity, each built by inserts and
\* removes, (map1 == map2) and (map2 == map1) give the same result.
C10_EqSymmetric == eq(map1, map2) = eq(map2, map1)

\* The key/value pairs stored in t.
PairsIn(t) == {t.buckets[i] : i \in Occupied(t)}

\* C11: two tables of the same capacity built by inserting the same set of
\* key/value pairs (distinct keys, no removals) in any orders compare equal.
C11_EqOrderInsensitive ==
    PairsIn(map1) = PairsIn(map2) => eq(map1, map2) = Returned(TRUE)

\* C11 witness: the tables hold the same two or more pairs in different
\* slots (colliding keys inserted in different orders) and compare equal.
C11_Witness ==
    /\ PairsIn(map1) = PairsIn(map2)
    /\ Cardinality(PairsIn(map1)) >= 2
    /\ map1.buckets # map2.buckets
    /\ eq(map1, map2) = Returned(TRUE)

\* C12: on a capacity-3 table, for every assignment of keys 1..4 to home
\* indices: the three inserts return (true, None) and len() = 3; insert(4)
\* returns (false, None); insert(1, 1000) returns (true, Some(100)) and
\* get(1) = Some(1000); remove(1) returns true, len() = 2, get(1) = None;
\* insert(4, 400) returns (true, None), len() = 3 and iteration yields
\* exactly (2,200), (3,300), (4,400).
C12_Scenario ==
    /\ pc \in 0..2 => ScenarioCall(map1, pc + 1).ret = Returned(TRUE)
    /\ pc = 3 => /\ len(map1) = 3
                 /\ ScenarioCall(map1, 4).ret = Rejected
    /\ pc = 4 => ScenarioCall(map1, 5).ret = Ret("ok", TRUE, Some(100))
    /\ pc = 5 => /\ get(map1, 1) = Ret("ok", TRUE, Some(1000))
                 /\ ScenarioCall(map1, 6).ret = Returned(TRUE)
    /\ pc = 6 => /\ len(map1) = 2
                 /\ get(map1, 1) = Absent
                 /\ ScenarioCall(map1, 7).ret = Returned(TRUE)
    /\ pc = 7 => /\ len(map1) = 3
                 /\ Len(iter(map1)) = 3
                 /\ {iter(map1)[n] : n \in 1..3} =
                        {KeyPair(2, 200), KeyPair(3, 300), KeyPair(4, 400)}

\* C12 witness: the scenario has run to its end with all four keys sharing
\* one home index.
C12_Witness ==
    /\ pc = ScenarioLen
    /\ \A k \in ScenarioKeys : hash[k] = hash[1]
    /\ len(map1) = 3

\* The index of the n-th Occupied slot of t, counting from slot 0.
NthOccupied(t, n) ==
    CHOOSE i \in Occupied(t) : Cardinality({j \in Occupied(t) : j < i}) = n - 1

\* C13: a fresh iter() (and iter_mut(), keys(), values()) yields exactly one
\* item per Occupied slot, in increasing bucket index order from slot 0, with
\* that slot's key and value, and nothing for Empty slots (so nothing at all
\* on a freshly constructed table).
C13_IterInBucketOrder ==
    LET items == iter(map1)
        ks == keys(map1)
        vs == values(map1)
    IN  /\ Len(items) = Cardinality(Occupied(map1))
        /\ \A n \in 1..Len(items) :
               LET slot == map1.buckets[NthOccupied(map1, n)]
               IN  /\ items[n] = slot
                   /\ ks[n] = slot[1]
                   /\ vs[n] = slot[2]
        /\ iter_mut_from(map1, 0) = items
        /\ Len(ks) = Len(items)
        /\ Len(vs) = Len(items)
        /\ map1 = with_capacity(cap(map1)) => items = <<>>

\* C13 witness: slot 0 is Empty, two later slots are Occupied, and the
\* iteration yields those two.
C13_Witness ==
    /\ map1.buckets[0] = Empty
    /\ Cardinality(Occupied(map1)) = 2
    /\ Len(iter(map1)) = 2

\* Occupancy and key of every slot, length and capacity of t.
Shape(t) ==
    [keys |-> [i \in DOMAIN t.buckets |-> key(t.buckets[i])],
     capacity |-> t.capacity,
     length |-> t.length]

\* C14: a write through get_mut(k) or iter_mut changes no slot's occupancy
\* or key, nor length or capacity; through get_mut only the value of the
\* found slot changes; a following get(k) returns the written value.
C14_ValueWriteKeepsShape ==
    /\ \A k \in Keys, v \in Vals :
          LET r == get_mut(map1, k, v)
          IN  IF r.ret.status = "ok" /\ r.ret.flag
              THEN /\ Shape(r.map) = Shape(map1)
                   /\ \E i \in SlotsOf(map1, k) :
                         /\ r.map.buckets[i] = KeyPair(k, v)
                         /\ \A j \in DOMAIN map1.buckets \ {i} :
                                r.map.buckets[j] = map1.buckets[j]
                   /\ get(r.map, k) = Ret("ok", TRUE, Some(v))
              ELSE r.map = map1
    /\ LET before == [k \in Keys |-> get(map1, k)]
       IN  \A f \in Updates :
               LET m == iter_mut(map1, f)
               IN  /\ Shape(m) = Shape(map1)
                   /\ \A k \in Keys :
                         before[k].flag
                         => get(m, k)
                              = Ret("ok", TRUE, Some(f[before[k].opt[1]]))

\* C14 witness: a key stored outside its home slot gets a new value through
\* get_mut.
C14_Witness ==
    \E k \in Keys, v \in Vals :
        /\ get_mut(map1, k, v).ret.flag
        /\ get_mut(map1, k, v).map # map1
        /\ find_bucket(map1, k) \notin SlotsOf(map1, k)

\* C15: 0 <= length <= capacity, and capacity is the value given at
\* construction (map2 keeps the table as constructed).
C15_LengthWithinCapacity ==
    /\ 0 <= len(map1)
    /\ len(map1) <= cap(map1)
    /\ cap(map1) = cap(map2)

\* insert(k, _) on t passes the fullness check and enters the collision loop.
EntersLoop(t, k) ==
    /\ t.buckets[find_bucket(t, k)] # Empty
    /\ t.buckets[find_bucket(t, k)][1] # k
    /\ ~is_full(t)

\* C16: whenever insert passes the fullness check and enters the collision
\* loop, the loop finds an Empty slot after fewer than capacity probe steps,
\* and insert returns.
C16_InsertTerminates ==
    \A k \in Keys, v \in Vals :
        /\ insert(map1, k, v).ret.status = "ok"
        /\ EntersLoop(map1, k)
           => /\ \E i \in DOMAIN map1.buckets : map1.buckets[i] = Empty
              /\ insert_loop_steps(map1, find_bucket(map1, k)) < cap(map1)

\* C16 witness: an insert enters the collision loop and needs two probe
\* steps to find the Empty slot.
C16_Witness ==
    \E k \in Keys :
        /\ EntersLoop(map1, k)
        /\ insert_loop_steps(map1, find_bucket(map1, k)) = 2

\* C17: when every slot is Occupied by keys other than k, get, contains_key,
\* get_mut and remove of k read at most capacity slots (the probe stops when
\* it wraps back to its starting index) and report k absent without fault.
C17_FullTableLookupStops ==
    \A k \in Keys :
        (Occupied(map1) = DOMAIN map1.buckets /\ k \notin KeysIn(map1))
        => /\ probe_reads(map1, k) <= cap(map1)
           /\ probe_key_bucket(map1, k) = Ret("ok", FALSE, None)
           /\ get(map1, k) = Absent
           /\ contains_key(map1, k) = Returned(FALSE)
           /\ remove(map1, k).ret = Returned(FALSE)
           /\ \A v \in Vals : get_mut(map1, k, v).ret = Absent

\* C17 witness: a table of two or more slots, all Occupied by keys other
\* than k, whose probe for k reads every slot and reports absent.
C17_Witness ==
    \E k \in Keys :
        /\ cap(map1) >= 2
        /\ Occupied(map1) = DOMAIN map1.buckets
        /\ k \notin KeysIn(map1)
        /\ probe_reads(map1, k) = cap(map1)
        /\ get(map1, k) = Absent

\* Number of forward steps, with wrap-around, from slot a to slot b of t.
Dist(t, a, b) == (b - a + cap(t)) % cap(t)

\* Indices of the Empty slots of t.
EmptySlots(t) == DOMAIN t.buckets \ Occupied(t)

\* The first Empty slot of t met scanning forward from slot a.
FirstEmptyFrom(t, a) ==
    CHOOSE i \in EmptySlots(t) :
        \A j \in EmptySlots(t) : Dist(t, a, i) <= Dist(t, a, j)

\* C18: when insert(k, v) finds k's home slot occupied by a different key and
\* the table is not full (length < capacity), it stores (k, v) in the first
\* Empty slot scanning forward from the home index with wrap-around,
\* increments length by 1, returns (true, None) and leaves every other slot
\* unchanged.
C18_InsertProbesForward ==
    \A k \in Keys, v \in Vals :
        EntersLoop(map1, k)
        => /\ EmptySlots(map1) # {}
           /\ LET r == insert(map1, k, v)
                   slot == FirstEmptyFrom(map1, find_bucket(map1, k))
               IN  /\ r.ret = Returned(TRUE)
                   /\ len(r.map) = len(map1) + 1
                   /\ cap(r.map) = cap(map1)
                   /\ r.map.buckets[slot] = KeyPair(k, v)
                   /\ \A j \in DOMAIN map1.buckets \ {slot} :
                          r.map.buckets[j] = map1.buckets[j]

\* C18 witness: the slot after the home slot is Occupied too, and the insert
\* lands in the Empty slot two steps on.
C18_Witness ==
    \E k \in Keys, v \in Vals :
        /\ EntersLoop(map1, k)
        /\ EmptySlots(map1) # {}
        /\ Dist(map1, find_bucket(map1, k),
                FirstEmptyFrom(map1, find_bucket(map1, k))) = 2
        /\ insert(map1, k, v).ret = Returned(TRUE)

\* C19: with inserts only, for every Occupied slot i holding key k, every
\* slot on the cyclic forward path from k's home index up to i is Occupied.
C19_ProbeChainContiguous ==
    \A i \in Occupied(map1) :
        LET home == find_bucket(map1, map1.buckets[i][1])
        IN  \A j \in DOMAIN map1.buckets :
                Dist(map1, home, j) <= Dist(map1, home, i)
                => j \in Occupied(map1)

\* C19 witness: a table of three slots holds a key one or more steps past
\* its home slot.
C19_Witness ==
    /\ cap(map1) >= 3
    /\ \E i \in Occupied(map1) :
           Dist(map1, find_bucket(map1, map1.buckets[i][1]), i) >= 1

\* C20: length is at least the number of Occupied slots, so the
\* `length -= 1` of remove runs with length >= 1 and never underflows.
C20_LengthCoversOccupied ==
    /\ len(map1) >= Cardinality(Occupied(map1))
    /\ \A k \in Keys :
           /\ remove(map1, k).ret.status # "underflow"
           /\ remove(map1, k).ret = Returned(TRUE) => len(map1) >= 1

\* C20 witness: a remove finds its key and takes length from 1 to 0.
C20_Witness ==
    \E k \in Keys :
        /\ remove(map1, k).ret = Returned(TRUE)
        /\ len(map1) = 1
        /\ len(remove(map1, k).map) = 0

====
